---- MODULE Spec2Model ----
(***************************************************************************)
(* Model of the cyberbullying-detection backend: the model-comparison      *)
(* pipeline of backend/ml_pipeline.py (feature-extractor globals, the      *)
(* trained-model cache, train_model, predict_text, predict_all_models),    *)
(* the request handlers of backend/routes.py (/train, /train-all,          *)
(* /predict, /predict-all, /results, /models) with the comparison result   *)
(* list, and clean_text of backend/data_loader.py.                         *)
(*                                                                         *)
(* Python objects (fitted extractors) are cells of a small heap; a cell is *)
(* freed when nothing references it any more (reference counting), so the  *)
(* identity of an extractor object is observable in the model.             *)
(***************************************************************************)
EXTENDS Integers, Sequences, FiniteSets, TLC

\* ------------------------------------------------------------------------
\* Bounds of the model
\* ------------------------------------------------------------------------

\* number of requests served in one behaviour
MaxReqs == 2
\* f1 scores are drawn from 0..MaxF1 (abstract score levels)
MaxF1 == 1
\* number of timed train_model calls in one behaviour of SpecDet
MaxCalls == 2
\* number of /train requests served at the same time in SpecConc
NumThreads == 2

\* ------------------------------------------------------------------------
\* data_loader.clean_text
\* ------------------------------------------------------------------------

Whitespace == {" ", "\t"}
LowerLetters == {"a", "b", "h", "t", "p", "w", "x"}
Digits == {"1"}
WordChars == LowerLetters \cup Digits \cup {"_"}

\* request texts: empty, blank, upper case, only digits, only a mention, a
\* URL, a bare "http", a URL and a tab inside a sentence, a mention
Texts ==
    { <<>>,
      <<"\t", " ">>,
      <<"B", " ", "a">>,
      <<"1">>,
      <<"@", "a">>,
      <<"h", "t", "t", "p", "x">>,
      <<"h", "t", "t", "p">>,
      <<"a", " ", "w", "w", "w", ".", "a", "\t", " ", "b">>,
      <<"@", "a", "1", " ", "b">> }

\* str.lower()
LowerChar(c) == CASE c = "A" -> "a" [] c = "B" -> "b" [] OTHER -> c
Lower(t) == [i \in 1..Len(t) |-> LowerChar(t[i])]

RECURSIVE DropWhileIn(_, _)
DropWhileIn(t, S) ==
    IF t # <<>> /\ Head(t) \in S THEN DropWhileIn(Tail(t), S) ELSE t

NonSpace(t) == {t[i] : i \in 1..Len(t)} \ Whitespace

\* a match of  http\S+|www\.\S+  starts at the head of t
StartsURL(t) ==
    /\ Len(t) >= 5
    /\ SubSeq(t, 1, 4) \in {<<"h", "t", "t", "p">>, <<"w", "w", "w", ".">>}
    /\ t[5] \notin Whitespace

\* re.sub(r"http\S+|www\.\S+", "", text)
RECURSIVE RemoveURLs(_)
RemoveURLs(t) ==
    IF t = <<>> THEN <<>>
    ELSE IF StartsURL(t)
         THEN RemoveURLs(DropWhileIn(SubSeq(t, 5, Len(t)), NonSpace(t)))
         ELSE <<Head(t)>> \o RemoveURLs(Tail(t))

\* re.sub(r"@\w+", "", text)
RECURSIVE RemoveMentions(_)
RemoveMentions(t) ==
    IF t = <<>> THEN <<>>
    ELSE IF Head(t) = "@" /\ Len(t) >= 2 /\ t[2] \in WordChars
         THEN RemoveMentions(DropWhileIn(Tail(t), WordChars))
         ELSE <<Head(t)>> \o RemoveMentions(Tail(t))

\* re.sub(r"[^a-z\s]", "", text)
KeepLettersAndSpaces(t) ==
    LET Keep(c) == c \in LowerLetters \cup Whitespace IN SelectSeq(t, Keep)

\* re.sub(r"\s+", " ", text)
RECURSIVE CollapseWhitespace(_)
CollapseWhitespace(t) ==
    IF t = <<>> THEN <<>>
    ELSE IF Head(t) \in Whitespace
         THEN <<" ">> \o CollapseWhitespace(DropWhileIn(t, Whitespace))
         ELSE <<Head(t)>> \o CollapseWhitespace(Tail(t))

RECURSIVE DropTrailingIn(_, _)
DropTrailingIn(t, S) ==
    IF t # <<>> /\ t[Len(t)] \in S
    THEN DropTrailingIn(SubSeq(t, 1, Len(t) - 1), S)
    ELSE t

\* str.strip()
Strip(t) == DropTrailingIn(DropWhileIn(t, Whitespace), Whitespace)

clean_text(text) ==
    Strip(CollapseWhitespace(KeepLettersAndSpaces(
        RemoveMentions(RemoveURLs(Lower(text))))))

\* ------------------------------------------------------------------------
\* ml_pipeline: configuration
\* ------------------------------------------------------------------------

\* MODEL_CONFIGS, in dict order
KeyOrder ==
    << "tfidf_naive_bayes", "tfidf_svm", "tfidf_logistic_regression",
       "w2v_naive_bayes", "w2v_svm", "w2v_logistic_regression" >>

Keys == {KeyOrder[i] : i \in 1..Len(KeyOrder)}

\* a model_key a client may send that is no key of MODEL_CONFIGS
UnknownKey == "bert_large"
\* the model keys of the /train and /predict requests: two configurations
\* that share the TF-IDF extractor, one with the other extractor, and the
\* unknown one (/train-all trains all six)
RequestKeys == {"tfidf_naive_bayes", "tfidf_svm", "w2v_svm", UnknownKey}

Feature(key) ==
    IF key \in {"tfidf_naive_bayes", "tfidf_svm", "tfidf_logistic_regression"}
    THEN "tfidf" ELSE "word_embeddings"

ClassifierType(key) ==
    CASE key \in {"tfidf_naive_bayes", "w2v_naive_bayes"} -> "naive_bayes"
      [] key \in {"tfidf_svm", "w2v_svm"} -> "svm"
      [] OTHER -> "logistic_regression"

\* the class of the object the factory returns; "ValueError" when it raises
create_classifier(classifier_type, feature_type) ==
    CASE classifier_type = "naive_bayes" ->
             IF feature_type = "tfidf" THEN "MultinomialNB" ELSE "GaussianNB"
      [] classifier_type = "svm" -> "CalibratedClassifierCV"
      [] classifier_type = "logistic_regression" -> "LogisticRegression"
      [] OTHER -> "ValueError"

\* the class of the classifier train_model creates for a key
ClassOf(key) == create_classifier(ClassifierType(key), Feature(key))

\* hasattr(clf, "predict_proba") for the scikit-learn classes
HasPredictProba(cls) ==
    cls \in {"MultinomialNB", "GaussianNB", "CalibratedClassifierCV",
             "LogisticRegression"}

\* dataset ids load_dataset knows
Datasets == {"1", "2", "combined"}
\* the dataset ids of the requests: two known ones and an unknown one
RequestDatasets == {"1", "combined", "3"}

\* ------------------------------------------------------------------------
\* Values
\* ------------------------------------------------------------------------

\* Python None where an object reference is expected
NoneRef == 0
NumObjs == Cardinality(Keys) + 3
ObjIds == 1..NumObjs

\* an optional float: None, or a number
None == [some |-> FALSE, val |-> 0]
Some(v) == [some |-> TRUE, val |-> v]

\* probabilities are counted in units of half the rounding step of
\* round(x, 4), so 1.0 is ProbOne units
ProbOne == 20000
\* predict_proba of the test matrix, of one and of three rows; a row holds
\* the probabilities of the two classes, which sum to 1.0
ProbaMatrices ==
    { << <<ProbOne \div 2, ProbOne \div 2>> >>,
      << <<ProbOne - 1, 1>>, <<ProbOne, 0>>, <<0, ProbOne>> >> }

F1Vals == 0..MaxF1

\* round(x, 4): to the nearest multiple of 2 units, halves to the even one
Round4(x) ==
    LET q == x \div 2
    IN  IF x % 2 = 0 THEN x
        ELSE IF q % 2 = 0 THEN 2 * q ELSE 2 * (q + 1)

\* faulty variant: the smallest probability of the row
RowMin(row) == IF row[1] <= row[2] THEN row[1] ELSE row[2]
\* np.max(probas, axis=1) for one row; max(probas) of predict_text
RowMax(row) == IF row[1] >= row[2] THEN row[1] ELSE row[2]

RECURSIVE SumOfMax(_)
SumOfMax(probas) ==
    IF probas = <<>> THEN 0 ELSE RowMax(Head(probas)) + SumOfMax(Tail(probas))

\* float(np.mean(np.max(probas, axis=1)))
MeanOfMax(probas) == SumOfMax(probas) \div Len(probas)

\* round(confidence, 4) if confidence else None
ReportConfidence(confidence) ==
    IF confidence.some /\ confidence.val # 0
    THEN Some(Round4(confidence.val)) ELSE None

\* ------------------------------------------------------------------------
\* State
\* ------------------------------------------------------------------------

VARIABLES
    tfidf_vectorizer,     \* ml_pipeline._tfidf_vectorizer: an object, or NoneRef
    embedding_pipeline,   \* ml_pipeline._embedding_pipeline: an object, or NoneRef
    trained_models,       \* ml_pipeline._trained_models: entries in dict order
    objs,                 \* heap: fitted state of each extractor object
    comparison_results,   \* routes._comparison_results
    trained_on,           \* history: dataset of the last successful train_model of a key
    last,                 \* the response of the last request
    nreq,                 \* number of requests served
    clock,                \* time.time(), in units of half a millisecond
    evals,                \* history: the train_model calls of SpecDet, each with
                          \* its arguments and the dict it returned
    th                    \* SpecConc: place and local variables of each worker
                          \* thread that serves a /train request

vars == << tfidf_vectorizer, embedding_pipeline, trained_models, objs,
           comparison_results, trained_on, last, nreq, clock, evals, th >>

\* the pipeline module's state as one value, threaded through its functions
Pipe ==
    [ tfidf |-> tfidf_vectorizer, emb |-> embedding_pipeline,
      tm |-> trained_models, objs |-> objs, trained_on |-> trained_on ]

SetPipe(P) ==
    /\ tfidf_vectorizer' = P.tfidf
    /\ embedding_pipeline' = P.emb
    /\ trained_models' = P.tm
    /\ objs' = P.objs
    /\ trained_on' = P.trained_on

\* ------------------------------------------------------------------------
\* The dict _trained_models and the heap
\* ------------------------------------------------------------------------

\* model_key in _trained_models
HasKey(tm, key) == \E i \in 1..Len(tm) : tm[i].model_key = key

\* _trained_models[model_key]
Get(tm, key) == tm[CHOOSE i \in 1..Len(tm) : tm[i].model_key = key]

\* faulty variant: the cache is rebuilt with the new
\* entry alone
PutAlone(tm, key, entry) == <<entry>>

\* _trained_models[model_key] = entry: a new key goes last, an old one
\* keeps its place
Put(tm, key, entry) ==
    IF HasKey(tm, key)
    THEN [i \in 1..Len(tm) |-> IF tm[i].model_key = key THEN entry ELSE tm[i]]
    ELSE Append(tm, entry)

CachedKeys(tm) == {tm[i].model_key : i \in 1..Len(tm)}

\* the extractor object of a cache entry: cached["tfidf_vec"] or
\* cached["embedding_pipeline"], by its feature_type
EntryExtractor(entry) ==
    IF entry.feature_type = "tfidf" THEN entry.tfidf_vec
    ELSE entry.embedding_pipeline

\* objects some global or cache entry refers to
Live(P) ==
    ({P.tfidf, P.emb}
        \cup {P.tm[i].tfidf_vec : i \in 1..Len(P.tm)}
        \cup {P.tm[i].embedding_pipeline : i \in 1..Len(P.tm)}) \ {NoneRef}

\* reference counting: an object nothing refers to is freed
Collect(P) ==
    [P EXCEPT !.objs = [i \in ObjIds |-> IF i \in Live(P) THEN @[i] ELSE "free"]]

\* a newly constructed object takes a free cell
NewObj(P) ==
    CHOOSE i \in ObjIds :
        /\ P.objs[i] = "free"
        /\ \A j \in ObjIds : j < i => P.objs[j] # "free"

\* ------------------------------------------------------------------------
\* ml_pipeline: feature extraction
\* ------------------------------------------------------------------------

\* no matrix: the extractor raised
NoMatrix == [ext |-> NoneRef, data |-> "None"]

\* faulty variant: the module-level vectorizer is
\* created once and fitted again by every call
build_tfidf_reusing_global(P, data, fails) ==
    LET id == IF P.tfidf # NoneRef THEN P.tfidf ELSE NewObj(P)
        P1 == [P EXCEPT !.tfidf = id, !.objs[id] = "unfitted"]
        P2 == [P1 EXCEPT !.objs[P1.tfidf] = data]
    IN  IF fails THEN [P |-> P1, ok |-> FALSE, X |-> NoMatrix]
        ELSE [P |-> P2, ok |-> TRUE, X |-> [ext |-> P1.tfidf, data |-> data]]

\* build_tfidf: a new TfidfVectorizer is bound to the global, then the
\* global is fitted on the training data; X is the training matrix, tagged
\* with the object that produced it and the data it was fitted on
build_tfidf(P, data, fails) ==
    LET id == NewObj(P)
        P1 == [P EXCEPT !.tfidf = id, !.objs[id] = "unfitted"]
        P2 == [P1 EXCEPT !.objs[P1.tfidf] = data]
    IN  IF fails THEN [P |-> P1, ok |-> FALSE, X |-> NoMatrix]
        ELSE [P |-> P2, ok |-> TRUE, X |-> [ext |-> P1.tfidf, data |-> data]]

\* build_word_embeddings: the same with the CountVectorizer + TruncatedSVD
\* + Normalizer pipeline and the other global
build_word_embeddings(P, data, fails) ==
    LET id == NewObj(P)
        P1 == [P EXCEPT !.emb = id, !.objs[id] = "unfitted"]
        P2 == [P1 EXCEPT !.objs[P1.emb] = data]
    IN  IF fails THEN [P |-> P1, ok |-> FALSE, X |-> NoMatrix]
        ELSE [P |-> P2, ok |-> TRUE, X |-> [ext |-> P1.emb, data |-> data]]

\* ------------------------------------------------------------------------
\* ml_pipeline.train_model
\* ------------------------------------------------------------------------

\* where an exception may be raised in a training request
FailStages == {"none", "extract", "fit", "predict", "proba", "score"}

\* the metrics bundle train_model returns, as far as the handlers and the
\* comparison list use it (no bundle: model_key "None")
NoResult == [model_key |-> "None", f1_score |-> 0, avg_confidence |-> None]

\* train_model(model_key, X_train, X_test, y_train, y_test) with the split
\* of dataset `data`; `fail` is the stage that raises, f1 the score the
\* fitted classifier reaches and probas its predict_proba on the test set.
\* Returns the new pipeline state, the stage that raised ("none": returned)
\* and the metrics bundle.
train_model(P, key, data, fail, f1, probas) ==
    IF key \notin Keys
    THEN [P |-> P, raised |-> "config", result |-> NoResult]
    ELSE
    LET feature_type == Feature(key)
        b == IF feature_type = "tfidf"
             THEN build_tfidf(P, data, fail = "extract")
             ELSE build_word_embeddings(P, data, fail = "extract")
        cls == create_classifier(ClassifierType(key), feature_type)
        \* clf.fit(X_train_vec, y_train)
        clf == [cls |-> cls, fit_ext |-> b.X.ext, fit_data |-> b.X.data]
        confidence == IF HasPredictProba(cls) THEN Some(MeanOfMax(probas))
                      ELSE None
        raised == IF ~b.ok THEN "extract"
                  ELSE IF cls = "ValueError" THEN "create"
                  ELSE IF fail \in {"fit", "predict", "score"} THEN fail
                  ELSE IF fail = "proba" /\ HasPredictProba(cls) THEN "proba"
                  ELSE "none"
        entry == [ model_key |-> key,
                   model |-> clf,
                   feature_type |-> feature_type,
                   tfidf_vec |->
                       IF feature_type = "tfidf" THEN b.P.tfidf ELSE NoneRef,
                   embedding_pipeline |->
                       IF feature_type = "word_embeddings" THEN b.P.emb
                       ELSE NoneRef ]
    IN  IF raised # "none"
        THEN [P |-> Collect(b.P), raised |-> raised, result |-> NoResult]
        ELSE [ P |-> Collect([b.P EXCEPT !.tm = Put(@, key, entry),
                                          !.trained_on[key] = data]),
               raised |-> "none",
               result |-> [ model_key |-> key, f1_score |-> f1,
                            avg_confidence |-> ReportConfidence(confidence) ] ]

\* ------------------------------------------------------------------------
\* ml_pipeline.predict_text and predict_all_models
\* ------------------------------------------------------------------------

\* the rows a fitted classifier's predict_proba can return
ProbaRowSeq ==
    << <<ProbOne, 0>>, <<ProbOne \div 2, ProbOne \div 2>>,
       <<1, ProbOne - 1>>, <<0, ProbOne>> >>

Weight(name) ==
    CASE name \in {"1", "MultinomialNB"} -> 1
      [] name \in {"2", "GaussianNB"} -> 2
      [] name \in {"combined", "CalibratedClassifierCV"} -> 3
      [] OTHER -> 0

\* model.predict_proba(vec)[0]: the fitted classifier is a function of its
\* class and training data, the vector one of the extractor's fitted state
\* and the text; which function is not modelled, any fixed one stands for it
predict_proba(clf, ext_fit, text) ==
    ProbaRowSeq[((Weight(clf.cls) + Weight(clf.fit_data) + Weight(ext_fit)
                  + Len(text)) % Len(ProbaRowSeq)) + 1]

\* exception classes a failing transform or predict may raise, as far as
\* the handlers tell them apart
PredictFails == {"none", "ValueError", "Exception"}

NoPrediction ==
    [ model_key |-> "None", prediction |-> 0, confidence |-> None,
      used_ext |-> NoneRef, used_fit |-> "None", has_proba |-> FALSE ]

\* predict_text(model_key, text); `fail` is the exception class the
\* transform or the classifier raises ("none": no failure).  Nothing of the
\* pipeline state is written.
predict_text(P, key, text, fail) ==
    IF ~HasKey(P.tm, key)
    THEN [ raised |-> "ValueError", not_trained |-> TRUE, transformed |-> FALSE,
           result |-> NoPrediction ]
    ELSE
    LET cached == Get(P.tm, key)
        model == cached.model
        ext == EntryExtractor(cached)
        ext_fit == IF ext = NoneRef THEN "None" ELSE P.objs[ext]
        \* transform of an object that is None or not fitted raises
        raised == IF ext = NoneRef THEN "Exception"
                  ELSE IF ext_fit = "unfitted" THEN "ValueError"
                  ELSE fail
        probas == predict_proba(model, ext_fit, text)
        prediction == IF probas[2] > probas[1] THEN 1 ELSE 0
        confidence == IF HasPredictProba(model.cls) THEN Some(RowMax(probas))
                      ELSE None
    IN  IF raised # "none"
        THEN [ raised |-> raised, not_trained |-> FALSE,
               transformed |-> ext # NoneRef, result |-> NoPrediction ]
        ELSE [ raised |-> "none", not_trained |-> FALSE, transformed |-> TRUE,
               result |-> [ model_key |-> key, prediction |-> prediction,
                            confidence |-> ReportConfidence(confidence),
                            used_ext |-> ext, used_fit |-> ext_fit,
                            has_proba |-> HasPredictProba(model.cls) ] ]

\* predict_all_models(text): the cached models in dict order, those whose
\* prediction raises are skipped; fail_key is the model whose prediction
\* fails ("None": no failure)
RECURSIVE predict_all_from(_, _, _, _)
predict_all_from(P, i, text, fail_key) ==
    IF i > Len(P.tm) THEN <<>>
    ELSE LET key == P.tm[i].model_key
             r == predict_text(P, key, text,
                               IF key = fail_key THEN "Exception" ELSE "none")
             rest == predict_all_from(P, i + 1, text, fail_key)
         IN  IF r.raised = "none" THEN <<r.result>> \o rest ELSE rest

\* faulty variant: the try block is around the loop, the first failure ends it
predict_all_until_failure(P, text, fail_key) ==
    LET before == {i \in 0..Len(P.tm) :
                      \A j \in 1..i : P.tm[j].model_key # fail_key}
        n == CHOOSE i \in before : \A j \in before : j <= i
    IN  predict_all_from([P EXCEPT !.tm = SubSeq(@, 1, n)], 1, text, fail_key)

predict_all_models(P, text, fail_key) == predict_all_from(P, 1, text, fail_key)

\* faulty variant: is_trained tells whether the key is configured
get_available_models_configured(tm) ==
    [i \in 1..Len(KeyOrder) |->
        [model_key |-> KeyOrder[i], is_trained |-> KeyOrder[i] \in Keys]]

\* get_available_models(): the configurations in the order of MODEL_CONFIGS,
\* each with its training status (the descriptive fields left out)
get_available_models(tm) ==
    [i \in 1..Len(KeyOrder) |->
        [model_key |-> KeyOrder[i], is_trained |-> HasKey(tm, KeyOrder[i])]]

\* ------------------------------------------------------------------------
\* routes: the comparison result list
\* ------------------------------------------------------------------------

\* an element of _comparison_results: the bundle with the dataset id the
\* handler adds and the is_best mark of /train-all (FALSE: no such field);
\* the other fields of the bundle are carried by the response alone
Bundle(result, dataset_id) ==
    [ model_key |-> result.model_key, f1_score |-> result.f1_score,
      dataset_id |-> dataset_id, is_best |-> FALSE ]

NoBundle == Bundle(NoResult, "None")

\* the place list.sort(key=f1, reverse=True) gives x among the sorted
\* elements before it: behind every element whose f1 is not smaller (stable)
RECURSIVE InsertByF1(_, _)
InsertByF1(sorted, x) ==
    IF sorted = <<>> THEN <<x>>
    ELSE IF Head(sorted).f1_score >= x.f1_score
         THEN <<Head(sorted)>> \o InsertByF1(Tail(sorted), x)
         ELSE <<x>> \o sorted

\* faulty variant: an ascending sort that is then
\* reversed, which turns the order of equal scores around
RECURSIVE InsertByF1BeforeEqual(_, _)
InsertByF1BeforeEqual(sorted, x) ==
    IF sorted = <<>> THEN <<x>>
    ELSE IF Head(sorted).f1_score > x.f1_score
         THEN <<Head(sorted)>> \o InsertByF1BeforeEqual(Tail(sorted), x)
         ELSE <<x>> \o sorted

RECURSIVE SortByF1Reversed(_)
SortByF1Reversed(results) ==
    IF results = <<>> THEN <<>>
    ELSE InsertByF1BeforeEqual(
             SortByF1Reversed(SubSeq(results, 1, Len(results) - 1)),
             results[Len(results)])

\* results.sort(key=lambda x: x["metrics"]["f1_score"], reverse=True)
RECURSIVE SortByF1Desc(_)
SortByF1Desc(results) ==
    IF results = <<>> THEN <<>>
    ELSE InsertByF1(SortByF1Desc(SubSeq(results, 1, Len(results) - 1)),
                    results[Len(results)])

\* faulty variant: the old bundle of the key is kept
KeepAll(results, key) == results

\* [r for r in _comparison_results if r["model_key"] != req.model_key]
WithoutKey(results, key) ==
    LET Other(r) == r.model_key # key IN SelectSeq(results, Other)

\* the update of the comparison list by /train
RecordResult(results, result) ==
    SortByF1Desc(Append(WithoutKey(results, result.model_key), result))

\* faulty variant: the last element is taken as best
get_results_last(results) ==
    [ results |-> results,
      best_model |-> IF results # <<>> THEN results[Len(results)] ELSE NoBundle ]

\* get_results: the list and its first element, None (NoBundle) when empty
get_results(results) ==
    [ results |-> results,
      best_model |-> IF results # <<>> THEN results[1] ELSE NoBundle ]

\* ------------------------------------------------------------------------
\* routes: the request handlers
\* ------------------------------------------------------------------------

\* the worker threads of the server: handlers declared with def run in a
\* thread pool, one thread per request
Threads == 1..NumThreads

\* no classifier
NoClf == [cls |-> "None", fit_ext |-> NoneRef, fit_data |-> "None"]

\* a thread that serves no request: pc is the statement it executes next, the
\* other fields are the local variables of train_model and of the handler,
\* writes counts the cache writes of the call
IdleThread ==
    [ pc |-> "idle", key |-> "None", data |-> "None", X_train |-> NoMatrix,
      clf |-> NoClf, f1 |-> 0, kept |-> <<>>, writes |-> 0 ]

\* the response of a handler, with what the handler did on the way:
\* status is the HTTP status, cause why it failed, called the keys
\* train_model was called for, loaded whether the dataset was loaded,
\* cache_read / transformed whether the cache was read and an extractor asked
\* to transform, confidence the avg_confidence of the trained (/train), best
\* (/train-all) or the confidence of the predicted (/predict) result,
\* results the keys of a /predict-all answer, best the key of best_model,
\* models the list of a /models answer, fail_key the model whose prediction
\* raised in a /predict-all request
NoResponse ==
    [ op |-> "none", key |-> "None", status |-> 0, cause |-> "none",
      called |-> {}, loaded |-> FALSE, confidence |-> None,
      has_proba |-> FALSE, cleaned_empty |-> FALSE, cache_read |-> FALSE,
      transformed |-> FALSE, results |-> <<>>, best |-> "None",
      models |-> <<>>, fail_key |-> "None" ]

Init ==
    /\ tfidf_vectorizer = NoneRef
    /\ embedding_pipeline = NoneRef
    /\ trained_models = <<>>
    /\ objs = [i \in ObjIds |-> "free"]
    /\ comparison_results = <<>>
    /\ trained_on = [k \in Keys |-> "None"]
    /\ last = NoResponse
    /\ nreq = 0
    /\ clock = 0
    /\ evals = <<>>
    /\ th = [t \in Threads |-> IdleThread]

Serve ==
    /\ nreq < MaxReqs
    /\ nreq' = nreq + 1
    /\ UNCHANGED << clock, evals, th >>

\* faulty variant: the prediction fits the module's TF-IDF vectorizer again
PipeRefitsVectorizer ==
    /\ objs' = [i \in ObjIds |->
                   IF i = tfidf_vectorizer THEN "refit" ELSE objs[i]]
    /\ UNCHANGED << tfidf_vectorizer, embedding_pipeline, trained_models,
                    trained_on >>

\* a handler that calls nothing that writes the pipeline module's state
PipeUnchanged ==
    UNCHANGED << tfidf_vectorizer, embedding_pipeline, trained_models, objs,
                 trained_on >>

\* faulty variant: /train without its model_key check
KnownModelUnchecked(key) == TRUE

\* req.model_key in ml_pipeline.MODEL_CONFIGS
KnownModel(key) == key \in Keys

\* data_loader.get_train_test_split raises for a dataset id that
\* load_dataset does not know
LoadFails(dataset_id) == dataset_id \notin Datasets

\* POST /train
Train(key, dataset_id, fail, f1, probas) ==
    /\ Serve
    /\ IF ~KnownModel(key)
       THEN /\ last' = [NoResponse EXCEPT !.op = "train", !.key = key,
                          !.status = 400, !.cause = "unknown_model"]
            /\ PipeUnchanged
            /\ UNCHANGED comparison_results
       ELSE IF LoadFails(dataset_id)
       THEN /\ last' = [NoResponse EXCEPT !.op = "train", !.key = key,
                          !.status = 500, !.cause = "internal"]
            /\ PipeUnchanged
            /\ UNCHANGED comparison_results
       ELSE \E r \in {train_model(Pipe, key, dataset_id, fail, f1, probas)} :
                /\ SetPipe(r.P)
                /\ IF r.raised # "none"
                   THEN /\ UNCHANGED comparison_results
                        /\ last' = [NoResponse EXCEPT !.op = "train",
                              !.key = key, !.status = 500,
                              !.cause = "internal", !.loaded = TRUE,
                              !.called = {key}]
                   ELSE /\ comparison_results' =
                               RecordResult(comparison_results,
                                            Bundle(r.result, dataset_id))
                        /\ last' = [NoResponse EXCEPT !.op = "train",
                              !.key = key, !.status = 200, !.cause = "ok",
                              !.loaded = TRUE, !.called = {key},
                              !.confidence = r.result.avg_confidence,
                              !.has_proba = HasPredictProba(ClassOf(key))]

\* the loop of /train-all over MODEL_CONFIGS from the i-th key on; inp holds
\* the dataset, the key index and stage of the failure (fail_at 0: none),
\* and the scores and test probabilities of the fitted classifiers
RECURSIVE TrainLoop(_, _, _, _)
TrainLoop(P, i, results, inp) ==
    IF i > Len(KeyOrder)
    THEN [P |-> P, raised |-> "none", results |-> results, called |-> i - 1]
    ELSE LET key == KeyOrder[i]
             r == train_model(P, key, inp.data,
                              IF i = inp.fail_at THEN inp.stage ELSE "none",
                              inp.scores[key], inp.probas)
         IN  IF r.raised # "none"
             THEN [P |-> r.P, raised |-> r.raised, results |-> results,
                   called |-> i]
             ELSE TrainLoop(r.P, i + 1, Append(results, r.result), inp)

\* results[0]["is_best"] = True
MarkBest(results) ==
    IF results # <<>> THEN [results EXCEPT ![1].is_best = TRUE] ELSE results

\* POST /train-all
TrainAll(dataset_id, fail_at, stage, scores, probas) ==
    /\ Serve
    /\ IF LoadFails(dataset_id)
       THEN /\ last' = [NoResponse EXCEPT !.op = "train_all",
                          !.status = 500, !.cause = "internal"]
            /\ PipeUnchanged
            /\ UNCHANGED comparison_results
       ELSE \E r \in {TrainLoop(Pipe, 1, <<>>,
                         [data |-> dataset_id, fail_at |-> fail_at,
                          stage |-> stage, scores |-> scores,
                          probas |-> probas])} :
            LET bundles == [i \in 1..Len(r.results) |->
                               Bundle(r.results[i], dataset_id)]
                results == MarkBest(SortByF1Desc(bundles))
                called == {KeyOrder[i] : i \in 1..r.called}
                best == get_results(results).best_model.model_key
                best_result ==
                    r.results[CHOOSE i \in 1..Len(r.results) :
                                  r.results[i].model_key = best]
            IN  /\ SetPipe(r.P)
                /\ IF r.raised # "none"
                   THEN /\ UNCHANGED comparison_results
                        /\ last' = [NoResponse EXCEPT !.op = "train_all",
                              !.key = KeyOrder[r.called], !.status = 500,
                              !.cause = "internal", !.loaded = TRUE,
                              !.called = called]
                   ELSE /\ comparison_results' = results
                        /\ last' = [NoResponse EXCEPT !.op = "train_all",
                              !.status = 200, !.cause = "ok",
                              !.loaded = TRUE, !.called = called,
                              !.best = best,
                              !.confidence = best_result.avg_confidence,
                              !.has_proba = HasPredictProba(ClassOf(best))]

\* req.text.strip() is empty
Blank(text) == Strip(text) = <<>>

\* POST /predict
Predict(key, text, fail) ==
    /\ Serve
    /\ PipeUnchanged
    /\ UNCHANGED comparison_results
    /\ IF Blank(text)
       THEN last' = [NoResponse EXCEPT !.op = "predict", !.key = key,
                       !.status = 400, !.cause = "empty",
                       !.cleaned_empty = (clean_text(text) = <<>>)]
       ELSE \E cleaned \in {clean_text(text)} :
            \E r \in {predict_text(Pipe, key, cleaned, fail)} :
                last' = [NoResponse EXCEPT !.op = "predict", !.key = key,
                    !.status = IF r.raised = "none" THEN 200
                               ELSE IF r.raised = "ValueError" THEN 400
                               ELSE 500,
                    !.cause = IF r.raised = "none" THEN "ok"
                              ELSE IF r.not_trained THEN "not_trained"
                              ELSE "internal",
                    !.cleaned_empty = (cleaned = <<>>),
                    !.cache_read = TRUE,
                    !.transformed = r.transformed,
                    !.confidence = r.result.confidence,
                    !.has_proba = r.result.has_proba]

\* POST /predict-all
PredictAll(text, fail_key) ==
    /\ Serve
    /\ PipeUnchanged
    /\ UNCHANGED comparison_results
    /\ IF Blank(text)
       THEN last' = [NoResponse EXCEPT !.op = "predict_all", !.status = 400,
                       !.cause = "empty",
                       !.cleaned_empty = (clean_text(text) = <<>>)]
       ELSE \E cleaned \in {clean_text(text)} :
            \E results \in {predict_all_models(Pipe, cleaned, fail_key)} :
                last' = [NoResponse EXCEPT !.op = "predict_all",
                    !.status = 200, !.cause = "ok",
                    !.cleaned_empty = (cleaned = <<>>),
                    !.cache_read = TRUE,
                    !.transformed = (trained_models # <<>>),
                    !.fail_key = fail_key,
                    !.results = [i \in 1..Len(results) |->
                                    results[i].model_key]]

\* GET /results
GetResults ==
    /\ Serve
    /\ PipeUnchanged
    /\ UNCHANGED comparison_results
    /\ last' = [NoResponse EXCEPT !.op = "results", !.status = 200,
                  !.cause = "ok",
                  !.best = get_results(comparison_results).best_model.model_key]

\* GET /models
GetModels ==
    /\ Serve
    /\ PipeUnchanged
    /\ UNCHANGED comparison_results
    /\ last' = [NoResponse EXCEPT !.op = "models", !.status = 200,
                  !.cause = "ok",
                  !.models = get_available_models(trained_models)]

\* the scores the six classifiers of one /train-all reach: all equal, or
\* rising with the place of the key in MODEL_CONFIGS and wrapping around
ScoreVector(rising, c) ==
    [k \in Keys |->
        LET i == CHOOSE j \in 1..Len(KeyOrder) : KeyOrder[j] = k
        IN  IF rising THEN (i + c) % (MaxF1 + 1) ELSE c]

\* the stage a model of /train-all is made to fail in
TrainAllFailStages == {"fit"}

TrainStep ==
    \E key \in RequestKeys, dataset_id \in RequestDatasets :
        \/ /\ ~KnownModel(key) \/ LoadFails(dataset_id)
           /\ Train(key, dataset_id, "none", 0, <<>>)
        \/ /\ KnownModel(key) /\ ~LoadFails(dataset_id)
           /\ \/ \E fail \in FailStages \ {"none"} :
                    Train(key, dataset_id, fail, 0, << <<ProbOne, 0>> >>)
              \/ \E f1 \in F1Vals, probas \in ProbaMatrices :
                    Train(key, dataset_id, "none", f1, probas)

TrainAllStep ==
    \E dataset_id \in RequestDatasets :
        \/ /\ LoadFails(dataset_id)
           /\ TrainAll(dataset_id, 0, "none", ScoreVector(FALSE, 0), <<>>)
        \/ /\ ~LoadFails(dataset_id)
           /\ \/ \E fail_at \in 1..Len(KeyOrder), stage \in TrainAllFailStages :
                    TrainAll(dataset_id, fail_at, stage, ScoreVector(FALSE, 0),
                             << <<ProbOne, 0>> >>)
              \/ \E rising \in BOOLEAN, c \in F1Vals, probas \in ProbaMatrices :
                    TrainAll(dataset_id, 0, "none", ScoreVector(rising, c),
                             probas)

\* the texts of the requests in which a transform or a classifier is made
\* to raise: one that clean_text empties and one it does not
FailTexts == { <<"1">>, <<"B", " ", "a">> }

PredictStep ==
    \E key \in RequestKeys :
        \/ \E text \in Texts : Predict(key, text, "none")
        \/ /\ HasKey(trained_models, key)
           /\ \E text \in FailTexts, fail \in PredictFails \ {"none"} :
                  Predict(key, text, fail)

\* the texts of the /predict-all requests: an empty one, a blank one, FailTexts
PredictAllTexts == { <<>>, <<"\t", " ">> } \cup FailTexts

PredictAllStep ==
    \/ \E text \in PredictAllTexts : PredictAll(text, "None")
    \/ \E text \in FailTexts, fail_key \in CachedKeys(trained_models) :
           PredictAll(text, fail_key)

Next ==
    \/ TrainStep
    \/ TrainAllStep
    \/ PredictStep
    \/ PredictAllStep
    \/ GetResults
    \/ GetModels

Spec == Init /\ [][Next]_vars

\* ------------------------------------------------------------------------
\* ml_pipeline.train_model with everything it returns
\* ------------------------------------------------------------------------

\* random_state=42 of TruncatedSVD, LinearSVC and LogisticRegression
RandomState == 42

\* the configurations with a randomized step: all but TF-IDF + MultinomialNB
UsesRandomState(key) == Feature(key) # "tfidf" \/ ClassifierType(key) # "naive_bayes"

\* faulty variant: random_state=None, the generators are seeded from the
\* clock
SeedFromClock(now) == now
\* the seed of the randomized steps of a call that starts at time `now`
Seed(now) == RandomState

\* what extraction, fit, predict and the metrics give for a configuration,
\* a split and a seed: f1, the test probabilities and the confusion matrix.
\* scikit-learn computes a function of these three; which function is not
\* modelled, any fixed one stands for it
fit_outcome(key, data, seed) ==
    LET n == Weight(ClassOf(key)) + Weight(data)
                 + (IF UsesRandomState(key) THEN seed ELSE 0)
    IN  [ f1 |-> n % (MaxF1 + 1),
          probas |-> << ProbaRowSeq[(n % Len(ProbaRowSeq)) + 1] >>,
          confusion_matrix |-> << <<n % 3, 1>>, <<0, (n + 1) % 3>> >> ]

\* len(y_train), len(y_test) of the split of a dataset
SampleCounts(data) == [train |-> 4 * Weight(data), test |-> Weight(data)]

\* round(t, 3) of a time in half milliseconds: to the nearest millisecond,
\* halves to the even one
Round3(t) == Round4(t)

\* the durations time.time() measures for feature extraction, fit and
\* predict of one call
Durations == { <<0, 0, 0>>, <<1, 3, 2>>, <<4, 0, 1>> }

\* the "timing" dict of the result
Timing(d) ==
    [ feature_extraction_sec |-> Round3(d[1]),
      training_sec |-> Round3(d[2]),
      prediction_sec |-> Round3(d[3]),
      total_sec |-> Round3(d[1] + d[2] + d[3]) ]

\* the dict train_model returns (the texts derived from MODEL_CONFIGS left
\* out), for the basic result r of the call
MetricsBundle(r, outcome, data, d) ==
    [ model_key |-> r.model_key,
      f1_score |-> r.f1_score,
      timing |-> Timing(d),
      confusion_matrix |-> outcome.confusion_matrix,
      avg_confidence |-> r.avg_confidence,
      train_samples |-> SampleCounts(data).train,
      test_samples |-> SampleCounts(data).test ]

\* the keys train_model is called with in SpecDet
CallKeys == {"tfidf_naive_bayes", "tfidf_svm", "w2v_naive_bayes"}

\* a call train_model(model_key, X_train, X_test, y_train, y_test) with the
\* split of `data` that starts at time `clock` and whose stages take the
\* durations d
CallTrainModel(key, data, d) ==
    /\ Len(evals) < MaxCalls
    /\ \E outcome \in {fit_outcome(key, data, Seed(clock))} :
       \E r \in {train_model(Pipe, key, data, "none", outcome.f1,
                              outcome.probas)} :
           /\ SetPipe(r.P)
           /\ evals' = Append(evals,
                   [ key |-> key, data |-> data,
                     bundle |-> MetricsBundle(r.result, outcome, data, d) ])
    /\ clock' = clock + d[1] + d[2] + d[3] + 1
    /\ UNCHANGED << comparison_results, last, nreq, th >>

NextDet ==
    \E key \in CallKeys, data \in Datasets \ {"combined"}, d \in Durations :
        CallTrainModel(key, data, d)

\* train_model called directly, several times in a row
SpecDet == Init /\ [][NextDet]_vars

\* ------------------------------------------------------------------------
\* /train requests served at the same time: the statements of
\* routes.train_model, ml_pipeline.train_model and build_tfidf /
\* build_word_embeddings, one step per access to the module globals
\* ------------------------------------------------------------------------

\* the model keys of the requests served at the same time
ConcKeys == {"tfidf_naive_bayes", "tfidf_svm", "w2v_svm"}

\* the statements of train_model that may raise
RaisingSteps == {"fit_transform", "training", "predicting", "scoring"}

\* _tfidf_vectorizer or _embedding_pipeline, as the statement reads it now
ExtractorGlobal(feature_type) ==
    IF feature_type = "tfidf" THEN tfidf_vectorizer ELSE embedding_pipeline

OthersUnchanged == UNCHANGED << last, nreq, clock, evals >>

\* the request is accepted: the key is configured, the split is loaded, and
\* train_model is entered; the threads are numbered in the order in which
\* they take their request
ConcStart(t, key, data) ==
    /\ th[t].pc = "idle"
    /\ \A u \in Threads : u < t => th[u].pc # "idle"
    /\ KnownModel(key) /\ ~LoadFails(data)
    /\ th' = [th EXCEPT ![t] = [IdleThread EXCEPT !.pc = "bind", !.key = key,
                                                   !.data = data]]
    /\ UNCHANGED << tfidf_vectorizer, embedding_pipeline, trained_models, objs,
                    comparison_results, trained_on >>
    /\ OthersUnchanged

\* _tfidf_vectorizer = TfidfVectorizer(...), _embedding_pipeline =
\* make_pipeline(...): a new object is bound to the global
ConcBind(t) ==
    /\ th[t].pc = "bind"
    /\ LET id == NewObj(Pipe)
       IN  /\ objs' = [objs EXCEPT ![id] = "unfitted"]
           /\ IF Feature(th[t].key) = "tfidf"
              THEN tfidf_vectorizer' = id /\ UNCHANGED embedding_pipeline
              ELSE embedding_pipeline' = id /\ UNCHANGED tfidf_vectorizer
    /\ th' = [th EXCEPT ![t].pc = "fit_transform"]
    /\ UNCHANGED << trained_models, comparison_results, trained_on >>
    /\ OthersUnchanged

\* X_train_vec = <global>.fit_transform(X_train): the object the global
\* refers to now is fitted on this thread's training data
ConcFitTransform(t) ==
    /\ th[t].pc = "fit_transform"
    /\ LET g == ExtractorGlobal(Feature(th[t].key))
       IN  /\ objs' = [objs EXCEPT ![g] = th[t].data]
           /\ th' = [th EXCEPT ![t].pc = "transform",
                               ![t].X_train = [ext |-> g, data |-> th[t].data]]
    /\ UNCHANGED << tfidf_vectorizer, embedding_pipeline, trained_models,
                    comparison_results, trained_on >>
    /\ OthersUnchanged

\* X_test_vec = <global>.transform(X_test): raises when the object the global
\* refers to now is not fitted
ConcTransform(t) ==
    /\ th[t].pc = "transform"
    /\ LET g == ExtractorGlobal(Feature(th[t].key))
       IN  th' = [th EXCEPT ![t].pc = IF objs[g] = "unfitted" THEN "failed"
                                      ELSE "training",
                            ![t].X_train = IF objs[g] = "unfitted" THEN NoMatrix
                                           ELSE @]
    /\ UNCHANGED << tfidf_vectorizer, embedding_pipeline, trained_models, objs,
                    comparison_results, trained_on >>
    /\ OthersUnchanged

\* faulty variant: the entry is stored as soon as the classifier is fitted
ConcTrainStoresEntry(t) ==
    /\ th[t].pc = "training"
    /\ LET key == th[t].key
           clf == [ cls |-> ClassOf(key), fit_ext |-> th[t].X_train.ext,
                    fit_data |-> th[t].X_train.data ]
       IN  /\ th' = [th EXCEPT ![t].pc = "predicting", ![t].clf = clf,
                               ![t].writes = @ + 1]
           /\ trained_models' = Put(trained_models, key,
                  [ model_key |-> key, model |-> clf,
                    feature_type |-> Feature(key),
                    tfidf_vec |-> IF Feature(key) = "tfidf"
                                  THEN tfidf_vectorizer ELSE NoneRef,
                    embedding_pipeline |-> IF Feature(key) = "word_embeddings"
                                           THEN embedding_pipeline ELSE NoneRef ])
    /\ UNCHANGED << tfidf_vectorizer, embedding_pipeline, objs,
                    comparison_results, trained_on >>
    /\ OthersUnchanged

\* clf = _create_classifier(...); clf.fit(X_train_vec, y_train)
ConcTrain(t) ==
    /\ th[t].pc = "training"
    /\ th' = [th EXCEPT ![t].pc = "predicting",
                        ![t].clf = [ cls |-> ClassOf(th[t].key),
                                     fit_ext |-> th[t].X_train.ext,
                                     fit_data |-> th[t].X_train.data ]]
    /\ UNCHANGED << tfidf_vectorizer, embedding_pipeline, trained_models, objs,
                    comparison_results, trained_on >>
    /\ OthersUnchanged

\* y_pred = clf.predict(X_test_vec) and the predict_proba block
ConcPredict(t) ==
    /\ th[t].pc = "predicting"
    /\ th' = [th EXCEPT ![t].pc = "scoring"]
    /\ UNCHANGED << tfidf_vectorizer, embedding_pipeline, trained_models, objs,
                    comparison_results, trained_on >>
    /\ OthersUnchanged

\* the metrics block: the score of the classifier this thread fitted
ConcScore(t) ==
    /\ th[t].pc = "scoring"
    /\ th' = [th EXCEPT ![t].pc = "caching",
                        ![t].f1 = fit_outcome(th[t].key, th[t].clf.fit_data,
                                              Seed(clock)).f1]
    /\ UNCHANGED << tfidf_vectorizer, embedding_pipeline, trained_models, objs,
                    comparison_results, trained_on >>
    /\ OthersUnchanged

\* a statement of train_model raises: the handler answers 500
ConcFail(t) ==
    /\ th[t].pc \in RaisingSteps
    /\ th' = [th EXCEPT ![t] = [IdleThread EXCEPT !.pc = "failed",
                                                   !.key = th[t].key,
                                                   !.data = th[t].data,
                                                   !.writes = th[t].writes]]
    /\ UNCHANGED << tfidf_vectorizer, embedding_pipeline, trained_models, objs,
                    comparison_results, trained_on >>
    /\ OthersUnchanged

\* _trained_models[model_key] = {...}: the entry gets the classifier of this
\* thread and the object the global refers to now
ConcCache(t) ==
    /\ th[t].pc = "caching"
    /\ LET key == th[t].key
           entry == [ model_key |-> key, model |-> th[t].clf,
                      feature_type |-> Feature(key),
                      tfidf_vec |-> IF Feature(key) = "tfidf"
                                    THEN tfidf_vectorizer ELSE NoneRef,
                      embedding_pipeline |->
                          IF Feature(key) = "word_embeddings"
                          THEN embedding_pipeline ELSE NoneRef ]
       IN  /\ trained_models' = Put(trained_models, key, entry)
           /\ trained_on' = [trained_on EXCEPT ![key] = th[t].data]
    /\ th' = [th EXCEPT ![t].pc = "return", ![t].writes = @ + 1]
    /\ UNCHANGED << tfidf_vectorizer, embedding_pipeline, objs,
                    comparison_results >>
    /\ OthersUnchanged

\* return {...}: train_model returns to the handler, its locals are gone
ConcReturn(t) ==
    /\ th[t].pc = "return"
    /\ th' = [th EXCEPT ![t].pc = "filter", ![t].X_train = NoMatrix,
                        ![t].clf = NoClf]
    /\ UNCHANGED << tfidf_vectorizer, embedding_pipeline, trained_models, objs,
                    comparison_results, trained_on >>
    /\ OthersUnchanged

\* the list comprehension of the handler is evaluated: a new list without
\* the bundle of the key
ConcFilter(t) ==
    /\ th[t].pc = "filter"
    /\ th' = [th EXCEPT ![t].pc = "assign",
                        ![t].kept = WithoutKey(comparison_results, th[t].key)]
    /\ UNCHANGED << tfidf_vectorizer, embedding_pipeline, trained_models, objs,
                    comparison_results, trained_on >>
    /\ OthersUnchanged

\* _comparison_results = <the new list>
ConcAssign(t) ==
    /\ th[t].pc = "assign"
    /\ comparison_results' = th[t].kept
    /\ th' = [th EXCEPT ![t].pc = "append", ![t].kept = <<>>]
    /\ UNCHANGED << tfidf_vectorizer, embedding_pipeline, trained_models, objs,
                    trained_on >>
    /\ OthersUnchanged

\* _comparison_results.append(result): to the list the global refers to now
ConcAppend(t) ==
    /\ th[t].pc = "append"
    /\ comparison_results' =
           Append(comparison_results,
                  Bundle([model_key |-> th[t].key, f1_score |-> th[t].f1],
                         th[t].data))
    /\ th' = [th EXCEPT ![t].pc = "sort"]
    /\ UNCHANGED << tfidf_vectorizer, embedding_pipeline, trained_models, objs,
                    trained_on >>
    /\ OthersUnchanged

\* _comparison_results.sort(...); return {"result": result}
ConcSort(t) ==
    /\ th[t].pc = "sort"
    /\ comparison_results' = SortByF1Desc(comparison_results)
    /\ th' = [th EXCEPT ![t].pc = "done"]
    /\ UNCHANGED << tfidf_vectorizer, embedding_pipeline, trained_models, objs,
                    trained_on >>
    /\ OthersUnchanged

\* the next statement of the request thread t serves
ConcStep(t) ==
    \/ ConcBind(t)
    \/ ConcFitTransform(t)
    \/ ConcTransform(t)
    \/ ConcTrain(t)
    \/ ConcPredict(t)
    \/ ConcScore(t)
    \/ ConcFail(t)
    \/ ConcCache(t)
    \/ ConcReturn(t)
    \/ ConcFilter(t)
    \/ ConcAssign(t)
    \/ ConcAppend(t)
    \/ ConcSort(t)

NextConc ==
    \E t \in Threads :
        \/ \E key \in ConcKeys, data \in Datasets \ {"combined"} :
               ConcStart(t, key, data)
        \/ ConcStep(t)

\* the handlers run in worker threads that interleave at every statement
SpecConc == Init /\ [][NextConc]_vars

\* every earlier request has been answered
InTurn(t) == \A u \in Threads : u < t => th[u].pc \in {"done", "failed"}

NextSeq ==
    \E t \in Threads :
        \/ \E key \in ConcKeys, data \in Datasets \ {"combined"} :
               InTurn(t) /\ ConcStart(t, key, data)
        \/ ConcStep(t)

\* the same statements when the requests are served one after the other
SpecSeq == Init /\ [][NextSeq]_vars

\* ------------------------------------------------------------------------
\* Properties
\* ------------------------------------------------------------------------

Pos(results, key) == CHOOSE i \in 1..Len(results) : results[i].model_key = key
KeyIndex(key) == CHOOSE i \in 1..Len(KeyOrder) : KeyOrder[i] = key

\* a request was served in this step
Served == nreq' # nreq

\* C1: after any sequence of /train and /train-all requests the comparison
\* result list holds at most one bundle per model key, so at most as many
\* bundles as there are keys, and is sorted non-increasing by f1_score.
C1_RankingSortedOnePerKey ==
    /\ Len(comparison_results) <= Cardinality(Keys)
    /\ \A i \in 1..Len(comparison_results) :
           \A j \in 1..Len(comparison_results) :
               i < j =>
                   /\ comparison_results[i].model_key
                          # comparison_results[j].model_key
                   /\ comparison_results[i].f1_score
                          >= comparison_results[j].f1_score

\* a key is trained again by /train after a /train-all, and the list has
\* bundles of different scores
C1_Witness ==
    /\ last.op = "train" /\ last.status = 200
    /\ Len(comparison_results) = Cardinality(Keys)
    /\ comparison_results[1].f1_score
           > comparison_results[Len(comparison_results)].f1_score

\* what predict_text does for the cached key in the present state
C2_PredictUsesLastTraining(key) ==
    LET entry == Get(trained_models, key)
        r == predict_text(Pipe, key, <<"a">>, "none")
    IN  /\ r.raised = "none"
        /\ r.result.used_ext = EntryExtractor(entry)
        /\ r.result.used_fit = trained_on[key]
        /\ entry.model.fit_ext = r.result.used_ext
        /\ entry.model.fit_data = trained_on[key]

\* C2: in every state, after any sequence of requests, predict_text for a
\* cached key transforms with the extractor object of the key's entry, that
\* object is the one that produced the matrix the entry's classifier was
\* fitted on, and its fitted state and the classifier's training data are
\* those of the most recent successful train_model call for the key (so no
\* retrain leaves a stale extractor, and neither the training of another key
\* with the same feature type nor a prediction replaces or refits it); a key
\* never trained has no entry.
C2_PredictionUsesOwnExtractor ==
    \A key \in Keys :
        IF HasKey(trained_models, key)
        THEN C2_PredictUsesLastTraining(key)
        ELSE trained_on[key] = "None"

\* two keys that share the TF-IDF extractor global are cached, trained one
\* after the other on different datasets
C2_Witness ==
    /\ last.op = "train" /\ last.status = 200
    /\ HasKey(trained_models, "tfidf_naive_bayes")
    /\ HasKey(trained_models, "tfidf_svm")
    /\ trained_on["tfidf_naive_bayes"] # trained_on["tfidf_svm"]

\* C3: a /train or /train-all request that fails writes nothing to the
\* model cache and nothing to the comparison list.
C3_FailedTrainingWritesNothing ==
    [][ (Served /\ last'.op \in {"train", "train_all"} /\ last'.status # 200)
            => /\ trained_models' = trained_models
               /\ comparison_results' = comparison_results
      ]_vars

\* C4: a prediction for a key without cache entry fails with an error whose
\* kind (the status of the response) differs from the kind of the errors for
\* an unknown model key, for empty input and for an internal failure, and
\* leaves the cache and the comparison list unchanged.
C4_NotTrainedIsDistinctKind ==
    [][ (Served /\ last'.cause = "not_trained")
            => /\ trained_models' = trained_models
               /\ comparison_results' = comparison_results
               /\ last.cause \in {"unknown_model", "empty", "internal"}
                      => last'.status # last.status
      ]_vars

\* C5: when the text that reaches the pipeline is empty, /predict and
\* /predict-all reject the request with the empty-input error before the
\* cache is read and before an extractor transforms anything.
C5_EmptyTextRejectedBeforeCache ==
    (last.op \in {"predict", "predict_all"} /\ last.cleaned_empty)
        => /\ last.status = 400
           /\ last.cause = "empty"
           /\ ~last.cache_read
           /\ ~last.transformed

\* C6: a /train request for a model key that is not configured is rejected
\* as a client error before the dataset is loaded and before train_model is
\* called, and changes neither the cache, the extractor globals, the
\* extractor objects nor the comparison list.
C6_UnknownModelRejected ==
    [][ (Served /\ last'.op = "train" /\ last'.key \notin Keys)
            => /\ last'.status = 400
               /\ ~last'.loaded
               /\ last'.called = {}
               /\ UNCHANGED << tfidf_vectorizer, embedding_pipeline,
                               trained_models, objs, comparison_results >>
      ]_vars

\* an unknown key is rejected when models are cached and ranked
C6_Witness ==
    /\ last.op = "train" /\ last.key = UnknownKey /\ last.status = 400
    /\ trained_models # <<>>
    /\ comparison_results # <<>>

\* C7: a training request leaves the cache entry of every key it does not
\* call train_model for as it was: the same classifier, feature tag and
\* extractor object, and the object's fitted state unchanged.
C7_CacheIsolation ==
    [][ (Served /\ last'.op \in {"train", "train_all"})
            => \A key \in CachedKeys(trained_models) \ last'.called :
                   /\ HasKey(trained_models', key)
                   /\ Get(trained_models', key) = Get(trained_models, key)
                   /\ objs'[EntryExtractor(Get(trained_models, key))]
                          = objs[EntryExtractor(Get(trained_models, key))]
      ]_vars

\* a key is trained while another key with the same feature type, trained on
\* another dataset, is cached
C7_Witness ==
    /\ last.op = "train" /\ last.called # {}
    /\ \E key \in CachedKeys(trained_models) \ last.called :
           /\ Feature(key) = Feature(last.key)
           /\ trained_on[key] # trained_on[last.key]

\* C8: the best model of the listing is the first element of the list, no
\* bundle has a higher f1_score, and it is None exactly when the list is
\* empty; the best_model of the /results and /train-all responses is that one.
C8_BestIsFirstAndMax ==
    LET listing == get_results(comparison_results)
    IN  /\ (listing.best_model = NoBundle) <=> (comparison_results = <<>>)
        /\ comparison_results # <<>> =>
               /\ listing.best_model = comparison_results[1]
               /\ \A i \in 1..Len(comparison_results) :
                      listing.best_model.f1_score
                          >= comparison_results[i].f1_score
        /\ (last.status = 200 /\ last.op \in {"results", "train_all"}) =>
               last.best = listing.best_model.model_key

\* /results answers for a list whose first and last bundle differ in score
C8_Witness ==
    /\ last.op = "results"
    /\ Len(comparison_results) >= 2
    /\ comparison_results[1].f1_score
           > comparison_results[Len(comparison_results)].f1_score
    /\ last.best = comparison_results[1].model_key

\* C9: the sort of the comparison list is stable.  /train keeps the order of
\* the bundles it does not replace and puts the new bundle behind every
\* bundle of the same f1_score, also when it replaces a bundle of its key;
\* /train-all leaves bundles of equal f1_score in the order the models were
\* trained in.
C9_StableSort ==
    [][ /\ (Served /\ last'.op = "train" /\ last'.status = 200) =>
               /\ \A i \in 1..Len(comparison_results) :
                      \A j \in 1..Len(comparison_results) :
                          LET a == comparison_results[i].model_key
                              b == comparison_results[j].model_key
                          IN  (i < j /\ a # last'.key /\ b # last'.key) =>
                                  Pos(comparison_results', a)
                                      < Pos(comparison_results', b)
               /\ \A i \in 1..Len(comparison_results') :
                      LET new == Pos(comparison_results', last'.key)
                      IN  (i # new /\ comparison_results'[i].f1_score
                               = comparison_results'[new].f1_score) => i < new
        /\ (Served /\ last'.op = "train_all" /\ last'.status = 200) =>
               \A i \in 1..Len(comparison_results') :
                   \A j \in 1..Len(comparison_results') :
                       (i < j /\ comparison_results'[i].f1_score
                            = comparison_results'[j].f1_score) =>
                           KeyIndex(comparison_results'[i].model_key)
                               < KeyIndex(comparison_results'[j].model_key)
      ]_vars

\* the first key of MODEL_CONFIGS is trained again with the score of the
\* other five and has moved behind them
C9_Witness ==
    /\ last.op = "train" /\ last.status = 200
    /\ last.key = KeyOrder[1]
    /\ Len(comparison_results) = Cardinality(Keys)
    /\ comparison_results[Len(comparison_results)].model_key = last.key
    /\ comparison_results[1].f1_score
           = comparison_results[Len(comparison_results)].f1_score

\* C10: the confidence of a training result and of a single prediction is
\* None exactly when the classifier has no predict_proba; with predict_proba
\* a number is reported whatever the probabilities are.
C10_ConfidenceAbsentIffNoProba ==
    (last.status = 200 /\ last.op \in {"train", "train_all", "predict"})
        => (last.confidence = None <=> ~last.has_proba)

\* a prediction reports the lowest confidence two classes allow
C10_Witness ==
    /\ last.op = "predict" /\ last.status = 200
    /\ last.has_proba
    /\ last.confidence = Some(ProbOne \div 2)

\* C11: a prediction request, successful or failed, /predict or
\* /predict-all, changes neither the model cache, the extractor globals, the
\* extractor objects nor the comparison list, so that predict_text called
\* again for the same key and text returns the result the state before the
\* request gave.
C11_PredictionIsReadOnly ==
    [][ (Served /\ last'.op \in {"predict", "predict_all"})
            => /\ UNCHANGED << tfidf_vectorizer, embedding_pipeline,
                               trained_models, objs, comparison_results >>
               /\ \A key \in CachedKeys(trained_models) \cup {last'.key} :
                      \A text \in {<<>>, <<"a">>} :
                          predict_text(Pipe', key, text, "none")
                              = predict_text(Pipe, key, text, "none")
      ]_vars

\* /predict-all answers for a cache of several models, one of which fails
C11_Witness ==
    /\ last.op = "predict_all" /\ last.status = 200
    /\ Len(last.results) >= 2
    /\ Len(last.results) < Len(trained_models)
    /\ tfidf_vectorizer # NoneRef

\* C12 as claimed: two train_model calls with the same key and the same
\* train/test split return identical dicts, every field included (scores,
\* confusion matrix, confidence, timing, sample counts).
C12_IdenticalBundles ==
    \A i \in 1..Len(evals) : \A j \in 1..Len(evals) :
        (evals[i].key = evals[j].key /\ evals[i].data = evals[j].data)
            => evals[i].bundle = evals[j].bundle

\* C12 as amended: two train_model calls with the same key and the same
\* train/test split return dicts that agree in every field but "timing"
\* (scores, confusion matrix, confidence, sample counts), whatever was
\* trained in between.
C12_IdenticalBundlesButTiming ==
    \A i \in 1..Len(evals) : \A j \in 1..Len(evals) :
        (evals[i].key = evals[j].key /\ evals[i].data = evals[j].data)
            => [evals[i].bundle EXCEPT !.timing = Timing(<<0, 0, 0>>)]
                   = [evals[j].bundle EXCEPT !.timing = Timing(<<0, 0, 0>>)]

\* a configuration with a randomized step is trained twice on the same
\* split, at different times, and the two calls took different times
C12_Witness ==
    \E i \in 1..Len(evals) : \E j \in 1..Len(evals) :
        /\ i < j
        /\ evals[i].key = evals[j].key /\ evals[i].data = evals[j].data
        /\ UsesRandomState(evals[i].key)
        /\ evals[i].bundle.timing # evals[j].bundle.timing

\* C13: whatever the interleaving of /train requests served at the same
\* time, every entry of the cache pairs a classifier with the extractor
\* object that produced the matrix the classifier was fitted on, and that
\* object is fitted on the classifier's training data.
C13_EntryPairsClassifierWithItsExtractor ==
    \A i \in 1..Len(trained_models) :
        LET entry == trained_models[i]
        IN  /\ EntryExtractor(entry) = entry.model.fit_ext
            /\ objs[EntryExtractor(entry)] = entry.model.fit_data

\* C14: when the /train requests served at the same time are for distinct
\* keys and have all succeeded, the comparison list holds the bundle of
\* every one of them, one bundle per key, sorted non-increasing by f1_score.
C14_NoLostRankingUpdate ==
    ( /\ \A t \in Threads : th[t].pc = "done"
      /\ \A t \in Threads : \A u \in Threads :
             t # u => th[t].key # th[u].key )
        => /\ \A t \in Threads :
                  \E i \in 1..Len(comparison_results) :
                      /\ comparison_results[i].model_key = th[t].key
                      /\ comparison_results[i].f1_score = th[t].f1
           /\ C1_RankingSortedOnePerKey

\* the stage of a train_model call whose next statement is pc: 1 extracting
\* features, 2 training, 3 predicting, 4 scoring, 5 cached (the entry is
\* written, the result is being built), 6 done (returned to the handler)
StageRank(pc) ==
    CASE pc = "idle" -> 0
      [] pc \in {"bind", "fit_transform", "transform"} -> 1
      [] pc = "training" -> 2
      [] pc = "predicting" -> 3
      [] pc \in {"scoring", "caching"} -> 4
      [] pc = "return" -> 5
      [] pc \in {"filter", "assign", "append", "sort", "done"} -> 6
      [] OTHER -> 7

\* C15: every train_model call, one call after the other, passes its stages in the order extracting features, training, predicting,
\* scoring, cached, done, one at a time; it fails only in one of the first
\* four and a failed call goes nowhere else; the cache is written only by
\* the step from scoring to cached, for the key of the call alone, so a call
\* has written the cache once when it is cached or done and never before,
\* and never when it has failed.
C15_StagesInOrder ==
    [][ /\ \A t \in Threads :
               LET a == StageRank(th[t].pc)
                   b == StageRank(th'[t].pc)
               IN  /\ th'[t].pc = "failed" =>
                          (th[t].pc = "failed" \/ a \in 1..4)
                   /\ th'[t].pc # "failed" =>
                          (th[t].pc # "failed" /\ b \in {a, a + 1})
                   /\ th'[t].writes = IF b \in {5, 6} THEN 1 ELSE 0
        /\ trained_models' # trained_models =>
               \E t \in Threads :
                   /\ StageRank(th[t].pc) = 4 /\ StageRank(th'[t].pc) = 5
                   /\ HasKey(trained_models', th[t].key)
                   /\ \A key \in CachedKeys(trained_models) \ {th[t].key} :
                          /\ HasKey(trained_models', key)
                          /\ Get(trained_models', key) = Get(trained_models, key)
      ]_vars

\* one call has returned and has written its entry, another one of the same
\* key has failed, and the cache holds that one entry
C15_Witness ==
    \E t \in Threads : \E u \in Threads :
        /\ th[t].pc = "done" /\ th[t].writes = 1
        /\ th[u].pc = "failed" /\ th[u].writes = 0
        /\ th[u].key = th[t].key
        /\ Len(trained_models) = 1

\* C16: the cache never loses a key.  Over every step the set of cached keys
\* only grows, it holds configured keys only, each once, so at most six, and
\* /models lists the six configurations with is_trained true for exactly the
\* cached keys.
C16_NoEviction ==
    [][ /\ CachedKeys(trained_models) \subseteq CachedKeys(trained_models')
        /\ CachedKeys(trained_models') \subseteq Keys
        /\ Len(trained_models') = Cardinality(CachedKeys(trained_models'))
        /\ Len(trained_models') <= 6
        /\ (Served /\ last'.op = "models") =>
               /\ Len(last'.models) = Len(KeyOrder)
               /\ \A i \in 1..Len(KeyOrder) :
                      /\ last'.models[i].model_key = KeyOrder[i]
                      /\ last'.models[i].is_trained
                             <=> KeyOrder[i] \in CachedKeys(trained_models')
      ]_vars

\* /models answers when some configurations are cached and others are not
C16_Witness ==
    /\ last.op = "models"
    /\ \E i \in 1..Len(last.models) : last.models[i].is_trained
    /\ \E i \in 1..Len(last.models) : ~last.models[i].is_trained
    /\ Len(trained_models) >= 1

\* C17: every key that has a bundle in the comparison list has a cache
\* entry, and the entry comes from the training call the bundle comes from:
\* the key's last successful train_model call was for the bundle's dataset.
C17_RankedModelsAreCached ==
    \A i \in 1..Len(comparison_results) :
        LET bundle == comparison_results[i]
        IN  /\ HasKey(trained_models, bundle.model_key)
            /\ trained_on[bundle.model_key] = bundle.dataset_id

\* C18: at most one bundle of the comparison list carries the is_best mark,
\* and a bundle that carries it is the first of the list, the one /results
\* returns as best_model.
C18_BestMarkOnFirstOnly ==
    \A i \in 1..Len(comparison_results) :
        comparison_results[i].is_best =>
            /\ i = 1
            /\ get_results(comparison_results).best_model
                   = comparison_results[i]

\* the keys of the cache, in dict order
C19_CacheOrder == [i \in 1..Len(trained_models) |-> trained_models[i].model_key]

\* C19: a /predict-all request whose text is not blank is answered with
\* status 200 whatever fails inside, and its results are those of the cached
\* keys in the order of the cache, each once, without the key whose
\* prediction raised; so there are at most as many results as cache entries
\* and none for a key that is not cached.
C19_PredictAllSkipsFailures ==
    [][ (Served /\ last'.op = "predict_all" /\ last'.cache_read)
            => /\ last'.status = 200
               /\ last'.results =
                      SelectSeq(C19_CacheOrder, LAMBDA k : k # last'.fail_key)
               /\ Len(last'.results) <= Len(trained_models)
               /\ \A i \in 1..Len(last'.results) :
                      HasKey(trained_models, last'.results[i])
      ]_vars

\* the prediction of the first model of the cache raised and the others
\* are in the answer
C19_Witness ==
    /\ last.op = "predict_all" /\ last.status = 200
    /\ Len(trained_models) >= 2
    /\ last.fail_key = trained_models[1].model_key
    /\ Len(last.results) = Len(trained_models) - 1

====
